---------------------------- MODULE Spec2Model ----------------------------
(***************************************************************************)
(* Model of src/utils/heatmap.py: class heatmap with                       *)
(*   make_heatmap(img_array, model, last_conv_layer_name)   (Grad-CAM)     *)
(*   image(image, heatmap)                                  (overlay)      *)
(*                                                                         *)
(* Numbers.  A float is a pair <<n, d>>: d > 0 is the rational n/d in      *)
(* lowest terms, <<0,0>> is NaN, <<1,0>> is +inf, <<-1,0>> is -inf.        *)
(* Rounding and the sign of zero are not modelled (0/-3 is 0).             *)
(*                                                                         *)
(* Arrays.  An array is [shape |-> <<d1,...,dk>>, data |-> row-major       *)
(* sequence of floats], as numpy / tf lay a dense tensor out.              *)
(***************************************************************************)
EXTENDS Integers, Sequences, FiniteSets, TLC

VARIABLES
    \* ---- one make_heatmap call (locals of the call, lines 27-55)
    mh_status,                \* "idle" | "returned" | "raised"
    forward_ran,              \* grad_model(img_array) was evaluated (line 34)
    last_conv_layer_output,   \* line 34, shape (B, H, W, C)
    preds,                    \* line 34, shape (B, K)
    pred_index,               \* line 35
    class_channel,            \* line 36, shape (B): what the tape differentiates
    grads,                    \* line 40, shape (B, H, W, C)
    pooled_grads,             \* line 44, shape (C)
    raw_heatmap,              \* `heatmap` after line 51
    heatmap,                  \* `heatmap` after line 54: the returned array
    \* ---- pyplot's global state and the file system, used by image()
    axes_images,              \* images held by pyplot's current axes, in draw order
    files,                    \* path -> content of the files written
    dir_exists,               \* data/save_fig/ exists
    n_calls,                  \* image() calls made so far
    n_ok,                     \* image() calls that returned
    last_call                 \* the last image() call: its arguments and outcome

gen_vars == <<mh_status, forward_ran, last_conv_layer_output, preds, pred_index,
              class_channel, grads, pooled_grads, raw_heatmap, heatmap>>
plt_vars == <<axes_images, files, dir_exists, n_calls, n_ok, last_call>>
vars == <<gen_vars, plt_vars>>

---------------------------------------------------------------------------
(* Bounds of the model *)

\* every dimension of the activation tensor is in 1..MaxDim
MaxDim == 2
\* an activation tensor has at most MaxCells entries, a prediction matrix too
MaxCells == 4
\* the classifier has at most MaxClasses outputs
MaxClasses == 2
\* image() is called at most MaxCalls times
MaxCalls == 2
\* the heatmaps handed to image() are h x w, h and w in 1..MaxHmDim
MaxHmDim == 2

\* entries of the activation tensor, of the gradient, of the predictions
ActVals  == {-1, 1}
GradVals == {-1, 0, 1}
PredVals == {0, 1}

---------------------------------------------------------------------------
(* Floats *)

NaN  == <<0, 0>>
Zero == <<0, 1>>
One  == <<1, 1>>

Abs(x) == IF x < 0 THEN -x ELSE x
Sign(x) == IF x < 0 THEN -1 ELSE IF x > 0 THEN 1 ELSE 0

RECURSIVE GCD(_, _)
GCD(a, b) == IF b = 0 THEN a ELSE GCD(b, a % b)

\* n/d as a float, d any integer
Norm(n, d) ==
    IF d = 0 THEN <<Sign(n), 0>>
    ELSE LET g == GCD(Abs(n), Abs(d))
             s == IF d < 0 THEN -1 ELSE 1
         IN  <<(s * n) \div g, (s * d) \div g>>

FromInt(i) == <<i, 1>>
IsNaN(a) == a = NaN

FMul(a, b) == Norm(a[1] * b[1], a[2] * b[2])
FDiv(a, b) == Norm(a[1] * b[2], a[2] * b[1])
FAdd(a, b) ==
    IF a[2] = 0 /\ b[2] = 0 THEN (IF a = b THEN a ELSE NaN)
    ELSE IF a[2] = 0 THEN a
    ELSE IF b[2] = 0 THEN b
    ELSE Norm(a[1] * b[2] + b[1] * a[2], a[2] * b[2])
\* a < b; false when either is NaN
FLess(a, b) ==
    IF a[2] = 0 /\ b[2] = 0 THEN a # NaN /\ b # NaN /\ a[1] < b[1]
    ELSE a[1] * b[2] < b[1] * a[2]
FLeq(a, b) == ~IsNaN(a) /\ ~IsNaN(b) /\ ~FLess(b, a)
\* tf.maximum / reduce_max on two values: NaN propagates
FMax(a, b) == IF IsNaN(a) \/ IsNaN(b) THEN NaN ELSE IF FLess(a, b) THEN b ELSE a

---------------------------------------------------------------------------
(* Arrays *)

RECURSIVE Prod(_)
Prod(s) == IF s = <<>> THEN 1 ELSE Head(s) * Prod(Tail(s))

Array(shape, data) == [shape |-> shape, data |-> data]
Size(a) == Len(a.data)

\* all integer-valued arrays of a shape with entries in vals
ArraysOf(shape, vals) ==
    { Array(shape, [k \in 1..Prod(shape) |-> FromInt(f[k])]) :
        f \in [1..Prod(shape) -> vals] }

RECURSIVE FSum(_)
FSum(s) == IF s = <<>> THEN Zero ELSE FAdd(Head(s), FSum(Tail(s)))

RECURSIVE FMaxSeq(_)
FMaxSeq(s) == IF Len(s) = 1 THEN s[1] ELSE FMax(Head(s), FMaxSeq(Tail(s)))


---------------------------------------------------------------------------
(* make_heatmap: the Heatmap Generator (lines 13-55) *)

\* the layers of the model handed in, and the names a caller may pass
ModelLayers == {"conv_last", "dense"}
LayerNames  == {"conv_last", "no_such_layer"}

\* model.get_layer(name) (line 28): raises ValueError when no layer has the name
get_layer_raises(layers, name) == name \notin layers

\* shapes (B, H, W, C) of the activation of the target layer
ActShapes ==
    { s \in [1..4 -> 1..MaxDim] : Prod(s) <= MaxCells }
\* shapes (B, K) of the prediction matrix for a batch of B
PredShapes(B) ==
    { <<B, K>> : K \in { k \in 1..MaxClasses : B * k <= MaxCells } }
\* shapes (B, h, w, 1) of the input image batch: the model, not this code,
\* decides the activation's shape from them
ImgShapes(B) == { <<B, 4, 4, 1>>, <<B, 8, 8, 1>> }

\* preds[0] (line 35)
FirstRow(p) == SubSeq(p.data, 1, p.shape[2])

\* tf.argmax over a vector (line 35): 0-based position of the maximum, the
\* smallest one when several positions hold it
RECURSIVE argmax_from(_, _, _)
argmax_from(row, k, best) ==
    IF k > Len(row) THEN best - 1
    ELSE argmax_from(row, k + 1, IF FLess(row[best], row[k]) THEN k ELSE best)

RECURSIVE argmax_last_from(_, _, _)
argmax_last_from(row, k, best) ==
    IF k > Len(row) THEN best - 1
    ELSE argmax_last_from(row, k + 1, IF FLess(row[k], row[best]) THEN best ELSE k)
tf_argmax_last(row) == argmax_last_from(row, 2, 1)

tf_argmax(row) == argmax_from(row, 2, 1)

\* preds[:, pred_index] (line 36)
Column(p, idx) ==
    Array(<<p.shape[1]>>, [b \in 1..p.shape[1] |-> p.data[(b - 1) * p.shape[2] + idx + 1]])

\* the entries of channel c (0-based) of a (B,H,W,C) array, over batch and space
ChannelEntries(g, c) ==
    LET n == g.shape[1] * g.shape[2] * g.shape[3]
    IN  [k \in 1..n |-> g.data[(k - 1) * g.shape[4] + c + 1]]

reduce_mean_spatial_only(g) ==
    Array(<<g.shape[4]>>,
          [c \in 1..g.shape[4] |->
              FDiv(FSum(ChannelEntries(g, c - 1)),
                   FromInt(g.shape[2] * g.shape[3]))])

\* tf.reduce_mean(grads, axis=(0, 1, 2)) (line 44)
reduce_mean_012(g) ==
    Array(<<g.shape[4]>>,
          [c \in 1..g.shape[4] |->
              FDiv(FSum(ChannelEntries(g, c - 1)),
                   FromInt(g.shape[1] * g.shape[2] * g.shape[3]))])

\* last_conv_layer_output[0] (line 49)
FirstBatch(a) ==
    Array(<<a.shape[2], a.shape[3], a.shape[4]>>,
          SubSeq(a.data, 1, a.shape[2] * a.shape[3] * a.shape[4]))

\* pooled_grads[..., tf.newaxis] (line 50)
NewAxis(v) == Array(v.shape \o <<1>>, v.data)

\* a @ w for a of shape (H, W, C) and w of shape (C, 1) (line 50): shape (H, W, 1)
MatMul(a, w) ==
    LET C == a.shape[3]
    IN  Array(<<a.shape[1], a.shape[2], w.shape[2]>>,
              [p \in 1..(a.shape[1] * a.shape[2]) |->
                  FSum([c \in 1..C |-> FMul(a.data[(p - 1) * C + c], w.data[c])])])

\* tf.squeeze with no axis (line 51): every dimension of size 1 is removed
tf_squeeze(a) == Array(SelectSeq(a.shape, LAMBDA d : d # 1), a.data)

\* tf.math.reduce_max over all entries
reduce_max(h) == FMaxSeq(h.data)

\* tf.maximum(h, 0)
Clamp(h) == Array(h.shape, [k \in 1..Size(h) |-> FMax(h.data[k], Zero)])

Normalize_ClampedMax(h) ==
    Array(h.shape, [k \in 1..Size(h) |-> FDiv(FMax(h.data[k], Zero), reduce_max(Clamp(h)))])

Normalize_NoClamp(h) ==
    Array(h.shape, [k \in 1..Size(h) |-> FDiv(h.data[k], reduce_max(h))])

Normalize_Guarded(h) ==
    Array(h.shape, [k \in 1..Size(h) |->
        IF reduce_max(h) = Zero THEN Zero
        ELSE FDiv(FMax(h.data[k], Zero), reduce_max(h))])

\* tf.maximum(heatmap, 0) / tf.math.reduce_max(heatmap) (line 54): the right-hand
\* side is evaluated before the assignment, so the divisor is the maximum of the
\* heatmap as it was before clamping
Normalize(h) ==
    Array(h.shape, [k \in 1..Size(h) |-> FDiv(Clamp(h).data[k], reduce_max(h))])

NoArray == Array(<<>>, <<>>)

\* make_heatmap with a name the model has no layer for: get_layer raises while
\* the arguments of keras.models.Model are built (line 28), before line 34
make_heatmap_raises ==
    /\ mh_status = "idle"
    /\ \E name \in LayerNames :
         /\ get_layer_raises(ModelLayers, name)
         /\ mh_status' = "raised"
    /\ UNCHANGED <<forward_ran, last_conv_layer_output, preds, pred_index,
                   class_channel, grads, pooled_grads, raw_heatmap, heatmap>>
    /\ UNCHANGED plt_vars

\* make_heatmap with a layer of the model.  The model (forward pass) and the
\* tape (gradient) are external: their results are any arrays of the right shape.
make_heatmap ==
    /\ mh_status = "idle"
    /\ \E name \in LayerNames, ashape \in ActShapes :
       \E img_shape \in ImgShapes(ashape[1]), pshape \in PredShapes(ashape[1]) :
       \E act \in ArraysOf(ashape, ActVals), p \in ArraysOf(pshape, PredVals),
          g \in ArraysOf(ashape, GradVals) :
         /\ ~get_layer_raises(ModelLayers, name)
         /\ forward_ran' = TRUE
         /\ last_conv_layer_output' = act
         /\ preds' = p
         /\ pred_index' = tf_argmax(FirstRow(p))
         /\ class_channel' = Column(p, tf_argmax(FirstRow(p)))
         /\ grads' = g
         /\ pooled_grads' = reduce_mean_012(g)
         /\ raw_heatmap' = tf_squeeze(MatMul(FirstBatch(act), NewAxis(reduce_mean_012(g))))
         /\ heatmap' = Normalize(tf_squeeze(MatMul(FirstBatch(act), NewAxis(reduce_mean_012(g)))))
         /\ mh_status' = "returned"
    /\ UNCHANGED plt_vars

---------------------------------------------------------------------------
(* image: the Overlay Renderer (lines 57-72) *)

\* plt.savefig's target (line 71)
SAVE_PATH == "data/save_fig/fig_saved.png"
\* cv2.resize's dsize is (OVERLAY_SIZE, OVERLAY_SIZE) (line 70)
OVERLAY_SIZE == 64
\* alpha of the heatmap layer (line 70), 0.4
OVERLAY_ALPHA == <<2, 5>>

Min(a, b) == IF a < b THEN a ELSE b

\* cv2's INTER_LINEAR source coordinate of destination index x when n source
\* samples are resized to dn: (x + 0.5) * n / dn - 0.5, split into the left tap
\* lo and the weight f / (2 dn) of the right tap, clamped at both borders
SrcCoord(x, n, dn) ==
    LET num == (2 * x + 1) * n - dn
        den == 2 * dn
        s == num \div den
    IN  IF s < 0 THEN [lo |-> 0, hi |-> Min(1, n - 1), f |-> 0, den |-> den]
        ELSE IF s >= n - 1 THEN [lo |-> n - 1, hi |-> n - 1, f |-> 0, den |-> den]
        ELSE [lo |-> s, hi |-> s + 1, f |-> num % den, den |-> den]

\* bilinear resize of the 2-D array src to dsize = (width, height)
Bilinear(src, dsize) ==
    LET h == src.shape[1]
        w == src.shape[2]
        dw == dsize[1]
        dh == dsize[2]
        At(i, j) == src.data[i * w + j + 1]
        Lerp(a, b, c) ==
            FAdd(FMul(Norm(c.den - c.f, c.den), a), FMul(Norm(c.f, c.den), b))
        Pixel(y, x) ==
            LET cy == SrcCoord(y, h, dh)
                cx == SrcCoord(x, w, dw)
            IN  Lerp(Lerp(At(cy.lo, cx.lo), At(cy.lo, cx.hi), cx),
                     Lerp(At(cy.hi, cx.lo), At(cy.hi, cx.hi), cx), cy)
    IN  Array(<<dh, dw>>,
              [p \in 1..(dh * dw) |-> Pixel((p - 1) \div dw, (p - 1) % dw)])

\* a gray base image of side k and a heatmap of shape (h, w) with entries in
\* {0, 1/2, 1}
GrayImage(k) == Array(<<k, k>>, [p \in 1..(k * k) |-> FromInt(p % 2)])
HeatmapOfShape(h, w) == Array(<<h, w>>, [p \in 1..(h * w) |-> Norm((p + 1) % 3, 2)])
\* the heatmap of the zero-gradient case, and an empty array
NaNHeatmap == Array(<<1, 1>>, <<NaN>>)
EmptyHeatmap == Array(<<0, 0>>, <<>>)

\* the arguments image() is called with
ImageInputs == { GrayImage(2), GrayImage(3) }
HeatmapInputs ==
    { HeatmapOfShape(h, w) : h, w \in 1..MaxHmDim } \cup { NaNHeatmap, EmptyHeatmap }

\* cv2.resize rejects an empty source (an assertion on the source size)
resize_raises(src) == Size(src) = 0

\* the resizes of the heatmap inputs, computed once
ResizeMemo ==
    [h \in { x \in HeatmapInputs : ~resize_raises(x) } |->
        Bilinear(h, <<OVERLAY_SIZE, OVERLAY_SIZE>>)]

\* cv2.resize(src, dsize), default interpolation (bilinear)
cv2_resize(src, dsize) ==
    IF dsize = <<OVERLAY_SIZE, OVERLAY_SIZE>> /\ src \in DOMAIN ResizeMemo
    THEN ResizeMemo[src]
    ELSE Bilinear(src, dsize)

\* plt.imshow(image, cmap="gray") (line 69): the image added to the current axes
BaseLayer(img) == [data |-> img, cmap |-> "gray", alpha |-> One]

OverlayData_ImageSize(hm, img) == cv2_resize(hm, <<img.shape[2], img.shape[1]>>)

\* cv2.resize(heatmap, (64, 64)) (line 70)
OverlayData(hm, img) == cv2_resize(hm, <<OVERLAY_SIZE, OVERLAY_SIZE>>)

\* plt.imshow(..., alpha=0.4) (line 70): default colormap
OverlayLayer(hm, img) ==
    [data |-> OverlayData(hm, img), cmap |-> "viridis", alpha |-> OVERLAY_ALPHA]

\* the PNG of a figure: the images of its axes, drawn in order
Png(images) == [format |-> "PNG", layers |-> images]

savefig_fresh_name(fs, images) ==
    LET path == IF SAVE_PATH \in DOMAIN fs THEN "data/save_fig/fig_saved_1.png" ELSE SAVE_PATH
    IN  [p \in DOMAIN fs \cup {path} |-> IF p = path THEN Png(images) ELSE fs[p]]

\* plt.savefig("data/save_fig/fig_saved.png") (line 71): writes the current
\* figure to the path, replacing what was there
savefig(fs, images) ==
    [p \in DOMAIN fs \cup {SAVE_PATH} |-> IF p = SAVE_PATH THEN Png(images) ELSE fs[p]]

\* image() that returns plt (line 72).  pyplot's current figure is global: no
\* line of image() opens or clears a figure, so both imshow calls add to the
\* axes the earlier calls drew on.
image ==
    /\ n_calls < MaxCalls
    /\ dir_exists
    /\ \E img \in ImageInputs, hm \in HeatmapInputs :
         /\ ~resize_raises(hm)
         /\ axes_images' = axes_images \o <<BaseLayer(img), OverlayLayer(hm, img)>>
         /\ files' = savefig(files, axes_images \o <<BaseLayer(img), OverlayLayer(hm, img)>>)
         /\ last_call' = [status |-> "ok", image |-> img, heatmap |-> hm]
    /\ n_calls' = n_calls + 1
    /\ n_ok' = n_ok + 1
    /\ UNCHANGED dir_exists
    /\ UNCHANGED gen_vars

\* image() in which cv2.resize raises (line 70): line 69 has run
image_resize_raises ==
    /\ n_calls < MaxCalls
    /\ \E img \in ImageInputs, hm \in HeatmapInputs :
         /\ resize_raises(hm)
         /\ axes_images' = Append(axes_images, BaseLayer(img))
         /\ last_call' = [status |-> "cv2.error", image |-> img, heatmap |-> hm]
    /\ n_calls' = n_calls + 1
    /\ UNCHANGED <<files, dir_exists, n_ok>>
    /\ UNCHANGED gen_vars

\* image() in which plt.savefig raises because data/save_fig/ does not exist
\* (line 71): lines 69 and 70 have run
image_savefig_raises ==
    /\ n_calls < MaxCalls
    /\ ~dir_exists
    /\ \E img \in ImageInputs, hm \in HeatmapInputs :
         /\ ~resize_raises(hm)
         /\ axes_images' = axes_images \o <<BaseLayer(img), OverlayLayer(hm, img)>>
         /\ last_call' = [status |-> "FileNotFoundError", image |-> img, heatmap |-> hm]
    /\ n_calls' = n_calls + 1
    /\ UNCHANGED <<files, dir_exists, n_ok>>
    /\ UNCHANGED gen_vars

\* the caller creates data/save_fig/
make_dir ==
    /\ ~dir_exists
    /\ dir_exists' = TRUE
    /\ UNCHANGED <<axes_images, files, n_calls, n_ok, last_call>>
    /\ UNCHANGED gen_vars

---------------------------------------------------------------------------
(* Specifications *)

InitGen ==
    /\ mh_status = "idle"
    /\ forward_ran = FALSE
    /\ last_conv_layer_output = NoArray
    /\ preds = NoArray
    /\ pred_index = -1
    /\ class_channel = NoArray
    /\ grads = NoArray
    /\ pooled_grads = NoArray
    /\ raw_heatmap = NoArray
    /\ heatmap = NoArray

InitPlt ==
    /\ axes_images = <<>>
    /\ files = <<>>
    /\ dir_exists = FALSE
    /\ n_calls = 0
    /\ n_ok = 0
    /\ last_call = [status |-> "none"]

Init == InitGen /\ InitPlt

NextGen == make_heatmap \/ make_heatmap_raises

\* the Heatmap Generator: one call, any inputs
Spec == Init /\ [][NextGen]_vars

NextPlt == image \/ image_resize_raises \/ image_savefig_raises \/ make_dir

\* the Overlay Renderer: up to MaxCalls calls, any inputs
SpecRender == Init /\ [][NextPlt]_vars

---------------------------------------------------------------------------
(* Properties of make_heatmap *)

Returned == mh_status = "returned"

\* integer sum of the values of a function with a finite domain
RECURSIVE SumFn(_)
SumFn(f) ==
    IF DOMAIN f = {} THEN 0
    ELSE LET x == CHOOSE y \in DOMAIN f : TRUE
         IN  f[x] + SumFn([y \in DOMAIN f \ {x} |-> f[y]])

AllEntries(a, P(_)) == \A k \in 1..Size(a) : P(a.data[k])
Negative(v) == FLess(v, Zero)
InUnit(v) == FLeq(Zero, v) /\ FLeq(v, One)
\* m is the largest entry of a
IsMaxOf(a, m) == (\E k \in 1..Size(a) : a.data[k] = m) /\ AllEntries(a, LAMBDA v : FLeq(v, m))

\* C1: when the maximum of the raw heatmap is not zero, every entry of the
\* returned heatmap is in [0, 1], for a positive maximum and for an all-negative
\* raw heatmap alike.
C1_UnitRange ==
    (Returned /\ ~IsMaxOf(raw_heatmap, Zero)) => AllEntries(heatmap, InUnit)

\* an all-negative raw heatmap of several entries was normalized
C1_Witness ==
    /\ Returned
    /\ Size(raw_heatmap) >= 2
    /\ AllEntries(raw_heatmap, Negative)
    /\ AllEntries(heatmap, InUnit)

\* C2 as stated: the returned heatmap is the clamped raw heatmap divided by the
\* maximum of the clamped array.
C2_DivisorIsClampedMax ==
    Returned =>
        \A k \in 1..Size(raw_heatmap) :
            heatmap.data[k] =
                FDiv(FMax(raw_heatmap.data[k], Zero),
                     FMaxSeq([j \in 1..Size(raw_heatmap) |-> FMax(raw_heatmap.data[j], Zero)]))

\* C2 amended: the divisor is the maximum of the raw heatmap before clamping.
\* With a raw maximum m > 0 that is the clamped array's maximum too and every
\* entry is max(x, 0) / m; with m = 0 every entry is 0/0; with an all-negative
\* raw heatmap the divisor is negative and every entry is zero, not 0/0.
C2_DivisorIsRawMax ==
    Returned =>
        /\ heatmap.shape = raw_heatmap.shape
        /\ Size(heatmap) = Size(raw_heatmap)
        /\ \A m \in { raw_heatmap.data[k] : k \in 1..Size(raw_heatmap) } :
             IsMaxOf(raw_heatmap, m) =>
               \A k \in 1..Size(raw_heatmap) :
                 LET x == raw_heatmap.data[k]
                     y == heatmap.data[k]
                 IN  /\ FLess(Zero, m) /\ FLess(Zero, x) => FMul(y, m) = x
                     /\ FLess(Zero, m) /\ ~FLess(Zero, x) => y = Zero
                     /\ m = Zero => IsNaN(y)
                     /\ FLess(m, Zero) => y = Zero

\* an all-negative raw heatmap with two different entries came back all zero
C2_Witness ==
    /\ Returned
    /\ AllEntries(raw_heatmap, Negative)
    /\ \E j, k \in 1..Size(raw_heatmap) : raw_heatmap.data[j] # raw_heatmap.data[k]
    /\ AllEntries(heatmap, LAMBDA v : v = Zero)

\* C3 as stated: for an activation of shape (1, H, W, C) the returned heatmap
\* has shape exactly (H, W), also when H = 1 or W = 1.
C3_ShapeIsHW ==
    (Returned /\ last_conv_layer_output.shape[1] = 1) =>
        heatmap.shape = <<last_conv_layer_output.shape[2], last_conv_layer_output.shape[3]>>

\* C4: with an all-zero gradient the call returns (it does not raise), the
\* pooled vector is all zero, the raw heatmap is all zero with maximum zero, and
\* every entry of the returned heatmap is NaN (0/0).
C4_ZeroGradientGivesNaN ==
    (forward_ran /\ AllEntries(grads, LAMBDA v : v = Zero)) =>
        /\ Returned
        /\ AllEntries(pooled_grads, LAMBDA v : v = Zero)
        /\ AllEntries(raw_heatmap, LAMBDA v : v = Zero)
        /\ IsMaxOf(raw_heatmap, Zero)
        /\ Size(heatmap) = Size(raw_heatmap)
        /\ AllEntries(heatmap, IsNaN)

\* a call with an all-zero gradient over several positions returned all NaN
C4_Witness ==
    /\ Returned
    /\ Size(grads) >= 2
    /\ AllEntries(grads, LAMBDA v : v = Zero)
    /\ Size(heatmap) >= 2
    /\ AllEntries(heatmap, IsNaN)

\* C5: the explained class is the position of the maximum of the first row of
\* the predictions, the lowest such position on a tie; it is a function of the
\* predictions alone.
C5_FirstArgmax ==
    Returned =>
        LET K == preds.shape[2]
            row == [k \in 1..K |-> preds.data[k]]
        IN  /\ pred_index \in 0..(K - 1)
            /\ \A k \in 1..K : FLeq(row[k], row[pred_index + 1])
            /\ \A k \in 1..pred_index : FLess(row[k], row[pred_index + 1])

\* two classes tie for the maximum of the first row and class 0 is explained,
\* while the second batch element prefers class 1
C5_Witness ==
    /\ Returned
    /\ preds.shape = <<2, 2>>
    /\ preds.data[1] = preds.data[2]
    /\ FLess(preds.data[3], preds.data[4])
    /\ pred_index = 0

\* row-major position (1-based) of entry (b, i, j, c), 0-based, in a (B,H,W,C) array
Pos4(shape, b, i, j, c) ==
    ((b * shape[2] + i) * shape[3] + j) * shape[4] + c + 1

\* the integer value of entry (b, i, j, c) of a (B,H,W,C) array of integers
IntAt(a, b, i, j, c) == a.data[Pos4(a.shape, b, i, j, c)][1]
\* the sum of channel c of the gradient over batch and space
GradSum(c) ==
    SumFn([t \in (0..(grads.shape[1] - 1)) \X (0..(grads.shape[2] - 1)) \X (0..(grads.shape[3] - 1))
             |-> IntAt(grads, t[1], t[2], t[3], c)])

\* C6: the pooled vector has one entry per channel, the mean of the gradient
\* over batch and space; the raw heatmap at (i, j) is the sum over c of
\* activation[0, i, j, c] * pooled[c]; with a gradient that is 1 everywhere all
\* pooled entries are equal and the raw heatmap is that value times the sum of
\* the channels at each position.
C6_PooledWeightedSum ==
    Returned =>
        LET B == grads.shape[1]
            H == grads.shape[2]
            W == grads.shape[3]
            C == grads.shape[4]
            N == B * H * W
            A == last_conv_layer_output
        IN  /\ pooled_grads.shape = <<C>>
            /\ Size(pooled_grads) = C
            /\ Size(raw_heatmap) = H * W
            /\ \A c \in 0..(C - 1) :
                 FMul(pooled_grads.data[c + 1], FromInt(N)) = FromInt(GradSum(c))
            /\ \A i \in 0..(H - 1), j \in 0..(W - 1) :
                 /\ FMul(raw_heatmap.data[i * W + j + 1], FromInt(N)) =
                      FromInt(SumFn([c \in 0..(C - 1) |-> IntAt(A, 0, i, j, c) * GradSum(c)]))
                 /\ AllEntries(grads, LAMBDA v : v = One) =>
                      /\ \A c \in 1..C : pooled_grads.data[c] = pooled_grads.data[1]
                      /\ raw_heatmap.data[i * W + j + 1] =
                           FMul(pooled_grads.data[1],
                                FromInt(SumFn([c \in 0..(C - 1) |-> IntAt(A, 0, i, j, c)])))

\* a batch of two with two channels: a pooled entry is a proper fraction and
\* the raw heatmap is not zero
C6_Witness ==
    /\ Returned
    /\ grads.shape[1] = 2
    /\ grads.shape[4] = 2
    /\ \E c \in 1..2 : pooled_grads.data[c][2] = 2
    /\ \E k \in 1..Size(raw_heatmap) : raw_heatmap.data[k] # Zero

---------------------------------------------------------------------------
(* Properties of image *)

IsOverlay(layer) == layer.alpha = OVERLAY_ALPHA
\* the two layers a call on (img, hm) draws
LayersOf(img, hm) == <<BaseLayer(img), OverlayLayer(hm, img)>>

\* C7 as stated: after any sequence of calls, the figure the last call rendered
\* and saved consists of exactly that call's gray base image and that call's
\* resized heatmap, with nothing carried over from earlier calls.  Stated here
\* for the sequences in which every call returned.
C7_NothingCarriedOver ==
    (last_call.status = "ok" /\ n_ok = n_calls) =>
        /\ axes_images = LayersOf(last_call.image, last_call.heatmap)
        /\ files[SAVE_PATH] = Png(LayersOf(last_call.image, last_call.heatmap))

\* C8: the renderer writes no file but data/save_fig/fig_saved.png; once a call
\* has returned that file exists, it is the only one, and after each returning
\* call it holds that call's rendering.
C8_OneFixedFile ==
    /\ DOMAIN files \subseteq {SAVE_PATH}
    /\ n_ok >= 1 => DOMAIN files = {SAVE_PATH}
    /\ last_call.status = "ok" =>
         /\ files[SAVE_PATH].format = "PNG"
         /\ files[SAVE_PATH].layers = axes_images

\* two calls with different inputs have returned and one file exists
C8_Witness ==
    /\ n_ok = 2
    /\ Cardinality(DOMAIN files) = 1
    /\ Len(axes_images) = 4
    /\ axes_images[1] # axes_images[3]
    /\ axes_images[2] # axes_images[4]

\* C9 as stated: a call of image() that fails because data/save_fig/ does not
\* exist leaves no effect: no file written and no change to the plotting state
\* a later call would observe; make_heatmap with an unknown layer fails before
\* the forward pass and returns no heatmap.
C9_AllOrNothing ==
    [][ /\ (n_calls' = n_calls + 1 /\ last_call'.status = "FileNotFoundError") =>
             (axes_images' = axes_images /\ files' = files)
        /\ mh_status' = "raised" => (~forward_ran' /\ heatmap' = NoArray) ]_vars

\* C10: the heatmap layer a call composites is 64 x 64 whatever the heatmap's
\* shape and the base image's shape; the base image keeps its own shape.
C10_OverlayIs64x64 ==
    /\ \A k \in 1..Len(axes_images) :
         IsOverlay(axes_images[k]) =>
           /\ axes_images[k].data.shape = <<64, 64>>
           /\ Size(axes_images[k].data) = 64 * 64
    /\ last_call.status \in {"ok", "FileNotFoundError"} =>
         LET n == Len(axes_images)
         IN  /\ n >= 2
             /\ IsOverlay(axes_images[n])
             /\ ~IsOverlay(axes_images[n - 1])
             /\ axes_images[n - 1].data = last_call.image
    /\ \A p \in DOMAIN files : \A k \in 1..Len(files[p].layers) :
         IsOverlay(files[p].layers[k]) => files[p].layers[k].data.shape = <<64, 64>>

\* a 1 x 2 heatmap was drawn over a 3 x 3 image after a 2 x 2 heatmap was drawn
\* over a 2 x 2 image: both heatmap layers are 64 x 64 and interpolated
C10_Witness ==
    /\ last_call.status = "ok"
    /\ last_call.heatmap.shape = <<1, 2>>
    /\ last_call.image.shape = <<3, 3>>
    /\ Len(axes_images) = 4
    /\ axes_images[1].data.shape = <<2, 2>>
    /\ axes_images[2].data.shape = <<64, 64>>
    /\ axes_images[4].data.shape = <<64, 64>>
    /\ axes_images[2].data # axes_images[4].data
    /\ Cardinality({ axes_images[4].data.data[k] : k \in 1..64 }) > 2

============================================================================
